---- MODULE Spec2Model ----
(***************************************************************************)
(* Model of the scene validator of the Starfleet SDK (ts/src/index.ts).    *)
(*                                                                         *)
(* A JavaScript object is a function whose DOMAIN is the set of keys the   *)
(* object has: an absent property (undefined) is a key outside the DOMAIN. *)
(* Strings are TLA+ strings, arrays are sequences, and the messages are    *)
(* built by concatenation exactly as the template literals build them.     *)
(***************************************************************************)
EXTENDS Integers, Sequences, FiniteSets, TLC

VARIABLES
    scene,   \* the scene file the caller holds
    result,  \* what validateScene(scene) gave
    stats,   \* what calculateSceneStats(scene) gave
    call,    \* the call made to a factory function, with its arguments
    made,    \* what that call returned
    ids,     \* the calls of generateId made so far: the random number and the id
    trip,    \* a Go value, the JSON json.Marshal wrote and what json.Unmarshal read back
    sf,      \* the SceneFile a Go program made with NewSceneFile
    heap,    \* the memory sf points into: backing arrays of its slices, time.Time cells
    ptr,     \* the pointer the Go program holds, from its last FindNode or FindEdge
    log      \* the calls made on sf: the arguments of AddNode and of AddEdge, the last call

goVars == <<sf, heap, ptr, log>>

vars == <<scene, result, stats, call, made, ids, trip, sf, heap, ptr, log>>

\* ---------------------------------------------------------------------------
\* Bounds of the model
\* ---------------------------------------------------------------------------
\* nodes and edges of a scene, together
MaxItems == 3

\* nodes of a scene whose statistics are taken
MaxStatNodes == 2

\* calls of generateId in a row
MaxCalls == 2

\* calls of AddNode and of AddEdge on a scene file, together
MaxAdds == 2

\* ---------------------------------------------------------------------------
\* JavaScript values
\* ---------------------------------------------------------------------------
\* o.k is not undefined
Has(o, k) == k \in DOMAIN o

\* !!o.k for a string-valued property: undefined and '' are falsy
Truthy(o, k) == Has(o, k) /\ o[k] # ""

\* ${o.k} in a template literal: undefined renders as 'undefined'
Str(o, k) == IF Has(o, k) THEN o[k] ELSE "undefined"

\* set.has(o.k) for a Set<string>: has(undefined) is false on a set of strings
SetHas(set, o, k) == Has(o, k) /\ o[k] \in set

\* all the objects with some of the keys `fields`, the values drawn from vals
Objects(fields, vals) == UNION { [D -> vals] : D \in SUBSET fields }

\* delete o.k
Delete(o, k) == [f \in DOMAIN o \ {k} |-> o[f]]

\* number of occurrences of x in the array
Count(arr, x) == Cardinality({ i \in DOMAIN arr : arr[i] = x })

\* ---------------------------------------------------------------------------
\* Inputs: scene files, complete or not
\* ---------------------------------------------------------------------------
\* the objects of W, and each of them with one of `fields` deleted or set to ''
OneFieldOff(W, fields) ==
    W \cup { Delete(w, f) : w \in W, f \in fields }
      \cup { [w EXCEPT ![f] = ""] : w \in W, f \in fields }

SceneNodes ==
    OneFieldOff({ [id |-> i, name |-> "n"] : i \in {"a", "b"} }, {"id", "name"})
      \cup { Delete([id |-> "a"], "id") }

SceneEdges ==
    OneFieldOff({ [id |-> "a", source |-> "a", target |-> "b"] }, {"id", "source", "target"})
      \cup { [id |-> "e", source |-> "a", target |-> "a"] }

\* an array of k elements of S under the key; no array at all is an array of none
ListField(key, S, k) ==
    { [f \in {key} |-> l] : l \in [1..k -> S] }
      \cup (IF k = 0 THEN { Delete([x |-> 0], "x") } ELSE {})

SceneGraphs ==
    UNION { { n @@ e : n \in ListField("nodes", SceneNodes, p[1]),
                       e \in ListField("edges", SceneEdges, p[2]) } :
            p \in { q \in (0..MaxItems) \X (0..MaxItems) : q[1] + q[2] <= MaxItems } }

SceneMetadatas == Objects({"name"}, {"", "S"})

\* the scene file made of these three parts, each an object with its key or without
SceneFile(v, m, g) == v @@ m @@ g

\* coordinates of the positioned nodes
Coords == {-5, 0, 10}

Vector3s == [x : Coords, y : Coords, z : Coords]

\* a transform with its position, and one without (rotation and scale are not read)
Transforms == { [position |-> p] : p \in Vector3s } \cup { Delete([position |-> 0], "position") }

\* nodes with a transform, one node without, and a second id next to the first
StatNodes ==
    { [id |-> "a", name |-> "n", transform |-> t] : t \in Transforms }
      \cup { [id |-> "a", name |-> "n"] }
      \cup { [id |-> "b", name |-> "n", transform |-> [position |-> [x |-> 0, y |-> 0, z |-> 0]]] }

\* no edge; an edge between the two nodes; that edge and one of the same id to no node
StatEdgeLists ==
    { <<>>,
      << [id |-> "e", source |-> "a", target |-> "b"] >>,
      << [id |-> "e", source |-> "a", target |-> "b"],
         [id |-> "e", source |-> "a", target |-> "c"] >> }

StatGraphs ==
    { n @@ e : n \in UNION { ListField("nodes", StatNodes, k) : k \in 0..MaxStatNodes },
               e \in Objects({"edges"}, StatEdgeLists) }

\* ---------------------------------------------------------------------------
\* validateScene
\* ---------------------------------------------------------------------------
\* scene.metadata?.name is falsy
NoName(s) == ~(Has(s, "metadata") /\ Truthy(s.metadata, "name"))

\* as NoNodes, but an empty array counts as no array (`!scene.scene?.nodes?.length`)
NoNodes_EmptyToo(s) == ~(Has(s, "scene") /\ Has(s.scene, "nodes") /\ s.scene.nodes # <<>>)

\* scene.scene?.nodes is falsy (an array, even an empty one, is truthy)
NoNodes(s) == ~(Has(s, "scene") /\ Has(s.scene, "nodes"))

\* as BasicValidation, with a fourth presence check, on scene.scene.edges
BasicValidation_RequiresEdges(s) ==
    (IF ~Truthy(s, "version") THEN <<"Scene file must have a version">> ELSE <<>>)
    \o (IF NoName(s) THEN <<"Scene file must have a name">> ELSE <<>>)
    \o (IF NoNodes(s) THEN <<"Scene file must have nodes">> ELSE <<>>)
    \o (IF ~(Has(s, "scene") /\ Has(s.scene, "edges"))
          THEN <<"Scene file must have edges">> ELSE <<>>)

\* the three presence checks, in order
BasicValidation(s) ==
    (IF ~Truthy(s, "version") THEN <<"Scene file must have a version">> ELSE <<>>)
    \o (IF NoName(s) THEN <<"Scene file must have a name">> ELSE <<>>)
    \o (IF NoNodes(s) THEN <<"Scene file must have nodes">> ELSE <<>>)

\* `list || []`
OrEmpty(o, k) == IF Has(o, k) THEN o[k] ELSE <<>>

\* as NodeBody, but the id is never added to nodeIds
NodeBody_NeverRecords(node, st) ==
    LET st1 == IF ~Truthy(node, "id")
                 THEN [st EXCEPT !.errors = Append(@, "All nodes must have an id")]
               ELSE IF node.id \in st.nodeIds
                 THEN [st EXCEPT !.errors = Append(@, "Duplicate node id: " \o Str(node, "id"))]
               ELSE st
    IN IF ~Truthy(node, "name")
         THEN [st1 EXCEPT !.warnings = Append(@, "Node " \o Str(node, "id") \o " has no name")]
         ELSE st1

\* as NodeBody, but a missing name is pushed to errors
NodeBody_NameError(node, st) ==
    LET st1 == IF ~Truthy(node, "id")
                 THEN [st EXCEPT !.errors = Append(@, "All nodes must have an id")]
               ELSE IF node.id \in st.nodeIds
                 THEN [st EXCEPT !.errors = Append(@, "Duplicate node id: " \o Str(node, "id"))]
               ELSE [st EXCEPT !.nodeIds = @ \cup {node.id}]
    IN IF ~Truthy(node, "name")
         THEN [st1 EXCEPT !.errors = Append(@, "Node " \o Str(node, "id") \o " has no name")]
         ELSE st1

\* one iteration of the node loop; st = [errors, warnings, nodeIds]
NodeBody(node, st) ==
    LET st1 == IF ~Truthy(node, "id")
                 THEN [st EXCEPT !.errors = Append(@, "All nodes must have an id")]
               ELSE IF node.id \in st.nodeIds
                 THEN [st EXCEPT !.errors = Append(@, "Duplicate node id: " \o Str(node, "id"))]
               ELSE [st EXCEPT !.nodeIds = @ \cup {node.id}]
    IN IF ~Truthy(node, "name")
         THEN [st1 EXCEPT !.warnings = Append(@, "Node " \o Str(node, "id") \o " has no name")]
         ELSE st1

RECURSIVE NodeLoop(_, _, _)
NodeLoop(nodes, i, st) ==
    IF i > Len(nodes) THEN st ELSE NodeLoop(nodes, i + 1, NodeBody(nodes[i], st))

SourceError(edge) ==
    "Edge " \o Str(edge, "id") \o " references non-existent source node: " \o Str(edge, "source")

TargetError(edge) ==
    "Edge " \o Str(edge, "id") \o " references non-existent target node: " \o Str(edge, "target")

\* as EdgeBody, but the target is checked before the source
EdgeBody_TargetFirst(edge, nodeIds, st) ==
    LET st1 == IF ~Truthy(edge, "id")
                 THEN [st EXCEPT !.errors = Append(@, "All edges must have an id")]
               ELSE IF edge.id \in st.edgeIds
                 THEN [st EXCEPT !.errors = Append(@, "Duplicate edge id: " \o Str(edge, "id"))]
               ELSE [st EXCEPT !.edgeIds = @ \cup {edge.id}]
        st2 == IF ~SetHas(nodeIds, edge, "target")
                 THEN [st1 EXCEPT !.errors = Append(@, TargetError(edge))]
                 ELSE st1
    IN IF ~SetHas(nodeIds, edge, "source")
         THEN [st2 EXCEPT !.errors = Append(@, SourceError(edge))]
         ELSE st2

\* as EdgeBody, but an edge from a node to itself is reported as dangling
EdgeBody_RejectsSelfLoops(edge, nodeIds, st) ==
    LET st1 == IF ~Truthy(edge, "id")
                 THEN [st EXCEPT !.errors = Append(@, "All edges must have an id")]
               ELSE IF edge.id \in st.edgeIds
                 THEN [st EXCEPT !.errors = Append(@, "Duplicate edge id: " \o Str(edge, "id"))]
               ELSE [st EXCEPT !.edgeIds = @ \cup {edge.id}]
        st2 == IF ~SetHas(nodeIds, edge, "source")
                 THEN [st1 EXCEPT !.errors = Append(@, SourceError(edge))]
                 ELSE st1
    IN IF ~SetHas(nodeIds \ {Str(edge, "source")}, edge, "target")
         THEN [st2 EXCEPT !.errors = Append(@, TargetError(edge))]
         ELSE st2

\* as EdgeBody, without the target check
EdgeBody_NoTargetCheck(edge, nodeIds, st) ==
    LET st1 == IF ~Truthy(edge, "id")
                 THEN [st EXCEPT !.errors = Append(@, "All edges must have an id")]
               ELSE IF edge.id \in st.edgeIds
                 THEN [st EXCEPT !.errors = Append(@, "Duplicate edge id: " \o Str(edge, "id"))]
               ELSE [st EXCEPT !.edgeIds = @ \cup {edge.id}]
    IN IF ~SetHas(nodeIds, edge, "source")
         THEN [st1 EXCEPT !.errors = Append(@, SourceError(edge))]
         ELSE st1

\* as EdgeBody, but an edge id is looked up among the node ids too
EdgeBody_SharedIds(edge, nodeIds, st) ==
    LET st1 == IF ~Truthy(edge, "id")
                 THEN [st EXCEPT !.errors = Append(@, "All edges must have an id")]
               ELSE IF edge.id \in st.edgeIds \cup nodeIds
                 THEN [st EXCEPT !.errors = Append(@, "Duplicate edge id: " \o Str(edge, "id"))]
               ELSE [st EXCEPT !.edgeIds = @ \cup {edge.id}]
        st2 == IF ~SetHas(nodeIds, edge, "source")
                 THEN [st1 EXCEPT !.errors = Append(@, SourceError(edge))]
                 ELSE st1
    IN IF ~SetHas(nodeIds, edge, "target")
         THEN [st2 EXCEPT !.errors = Append(@, TargetError(edge))]
         ELSE st2

\* as EdgeBody, but the reference checks are skipped for an edge whose id was reported
EdgeBody_ChecksValidIdsOnly(edge, nodeIds, st) ==
    LET st1 == IF ~Truthy(edge, "id")
                 THEN [st EXCEPT !.errors = Append(@, "All edges must have an id")]
               ELSE IF edge.id \in st.edgeIds
                 THEN [st EXCEPT !.errors = Append(@, "Duplicate edge id: " \o Str(edge, "id"))]
               ELSE [st EXCEPT !.edgeIds = @ \cup {edge.id}]
        st2 == IF ~SetHas(nodeIds, edge, "source")
                 THEN [st1 EXCEPT !.errors = Append(@, SourceError(edge))]
                 ELSE st1
        st3 == IF ~SetHas(nodeIds, edge, "target")
                 THEN [st2 EXCEPT !.errors = Append(@, TargetError(edge))]
                 ELSE st2
    IN IF Len(st1.errors) > Len(st.errors) THEN st1 ELSE st3

\* one iteration of the edge loop; st = [errors, edgeIds]
EdgeBody(edge, nodeIds, st) ==
    LET st1 == IF ~Truthy(edge, "id")
                 THEN [st EXCEPT !.errors = Append(@, "All edges must have an id")]
               ELSE IF edge.id \in st.edgeIds
                 THEN [st EXCEPT !.errors = Append(@, "Duplicate edge id: " \o Str(edge, "id"))]
               ELSE [st EXCEPT !.edgeIds = @ \cup {edge.id}]
        st2 == IF ~SetHas(nodeIds, edge, "source")
                 THEN [st1 EXCEPT !.errors = Append(@, SourceError(edge))]
                 ELSE st1
    IN IF ~SetHas(nodeIds, edge, "target")
         THEN [st2 EXCEPT !.errors = Append(@, TargetError(edge))]
         ELSE st2

RECURSIVE EdgeLoop(_, _, _, _)
EdgeLoop(edges, i, nodeIds, st) ==
    IF i > Len(edges) THEN st
    ELSE EdgeLoop(edges, i + 1, nodeIds, EdgeBody(edges[i], nodeIds, st))

\* as ValidationResult, but a warning makes the scene invalid
ValidationResult_CountsWarnings(errors, warnings) ==
    [status |-> "returned", valid |-> (Len(errors) = 0 /\ Len(warnings) = 0),
     errors |-> errors, warnings |-> warnings]

\* the value of the return statement
ValidationResult(errors, warnings) ==
    [status |-> "returned", valid |-> (Len(errors) = 0), errors |-> errors, warnings |-> warnings]

\* a TypeError leaves the function
Threw == [status |-> "threw"]

\* as Throws, but the edge loop iterates scene.scene.edges without `|| []`
Throws_NoEdgeGuard(s) == ~Has(s, "scene") \/ ~Has(s.scene, "edges")

\* `scene.scene.nodes` and `scene.scene.edges` read a property of scene.scene:
\* a TypeError when scene.scene is undefined
Throws(s) == ~Has(s, "scene")

validateScene(s) ==
    IF Throws(s) THEN Threw
    ELSE
      LET afterNodes == NodeLoop(OrEmpty(s.scene, "nodes"), 1,
                                 [errors |-> BasicValidation(s), warnings |-> <<>>, nodeIds |-> {}])
          afterEdges == EdgeLoop(OrEmpty(s.scene, "edges"), 1, afterNodes.nodeIds,
                                 [errors |-> afterNodes.errors, edgeIds |-> {}])
      IN ValidationResult(afterEdges.errors, afterNodes.warnings)

\* ---------------------------------------------------------------------------
\* calculateSceneStats
\* ---------------------------------------------------------------------------
\* as Counts, but nodes of the same id are counted once
Counts_DistinctIds(s) ==
    [nodeCount |-> Cardinality({ Str(OrEmpty(s.scene, "nodes")[i], "id") :
                                   i \in DOMAIN OrEmpty(s.scene, "nodes") }),
     edgeCount |-> IF Has(s.scene, "edges") THEN Len(s.scene.edges) ELSE 0]

\* `list?.length || 0` of the two lists
Counts(s) ==
    [nodeCount |-> IF Has(s.scene, "nodes") THEN Len(s.scene.nodes) ELSE 0,
     edgeCount |-> IF Has(s.scene, "edges") THEN Len(s.scene.edges) ELSE 0]

\* nodes?.map(node => node.transform.position).filter(Boolean) || []: the
\* positions that are not undefined, in the order of the nodes
Positions(s) ==
    LET positioned == SelectSeq(OrEmpty(s.scene, "nodes"),
                                LAMBDA node : Has(node.transform, "position"))
    IN [i \in DOMAIN positioned |-> positioned[i].transform.position]

\* Math.min(...xs) of at least one number
RECURSIVE MathMin(_)
MathMin(xs) ==
    IF Len(xs) = 1 THEN xs[1]
    ELSE LET m == MathMin(Tail(xs)) IN IF xs[1] < m THEN xs[1] ELSE m

\* Math.max(...xs) of at least one number
RECURSIVE MathMax(_)
MathMax(xs) ==
    IF Len(xs) = 1 THEN xs[1]
    ELSE LET m == MathMax(Tail(xs)) IN IF xs[1] > m THEN xs[1] ELSE m

\* as Bounds, but the z of size is a copy of the line of y
Bounds_SizeZFromY(positions) ==
    LET xs == [i \in DOMAIN positions |-> positions[i].x]
        ys == [i \in DOMAIN positions |-> positions[i].y]
        zs == [i \in DOMAIN positions |-> positions[i].z]
        min == [x |-> MathMin(xs), y |-> MathMin(ys), z |-> MathMin(zs)]
        max == [x |-> MathMax(xs), y |-> MathMax(ys), z |-> MathMax(zs)]
    IN [min |-> min, max |-> max,
        size |-> [x |-> max.x - min.x, y |-> max.y - min.y, z |-> max.y - min.y]]

\* the box around the positions
Bounds(positions) ==
    LET xs == [i \in DOMAIN positions |-> positions[i].x]
        ys == [i \in DOMAIN positions |-> positions[i].y]
        zs == [i \in DOMAIN positions |-> positions[i].z]
        min == [x |-> MathMin(xs), y |-> MathMin(ys), z |-> MathMin(zs)]
        max == [x |-> MathMax(xs), y |-> MathMax(ys), z |-> MathMax(zs)]
    IN [min |-> min, max |-> max,
        size |-> [x |-> max.x - min.x, y |-> max.y - min.y, z |-> max.z - min.z]]

\* as HasPositions, but one position alone makes no box
HasPositions_MoreThanOne(positions) == Len(positions) > 1

\* positions.length > 0
HasPositions(positions) == Len(positions) > 0

\* the TypeErrors: reading .nodes of an undefined scene.scene, and reading
\* .position of an undefined node.transform
StatsThrows(s) ==
    \/ ~Has(s, "scene")
    \/ \E i \in DOMAIN OrEmpty(s.scene, "nodes") : ~Has(OrEmpty(s.scene, "nodes")[i], "transform")

calculateSceneStats(s) ==
    IF StatsThrows(s) THEN Threw
    ELSE LET positions == Positions(s)
         IN [status |-> "returned"] @@ Counts(s)
              @@ (IF HasPositions(positions) THEN [bounds |-> Bounds(positions)] ELSE <<>>)

\* ---------------------------------------------------------------------------
\* createTransform and createMaterial
\* ---------------------------------------------------------------------------
\* { ...defaults, ...given }: the keys of both, a key of both takes the value given
Spread(defaults, given) == given @@ defaults

\* a parameter with the default value {}: an argument left out is {}
OrEmptyObject(args, k) == IF Has(args, k) THEN args[k] ELSE <<>>

\* as createTransform, but an argument given replaces the whole default object
createTransform_ReplacesWhole(args) ==
    [position |-> IF Has(args, "position") THEN args.position ELSE [x |-> 0, y |-> 0, z |-> 0],
     rotation |-> IF Has(args, "rotation") THEN args.rotation ELSE [x |-> 0, y |-> 0, z |-> 0],
     scale    |-> IF Has(args, "scale") THEN args.scale ELSE [x |-> 1, y |-> 1, z |-> 1]]

\* args holds the arguments given, under the names of the parameters
createTransform(args) ==
    [position |-> Spread([x |-> 0, y |-> 0, z |-> 0], OrEmptyObject(args, "position")),
     rotation |-> Spread([x |-> 0, y |-> 0, z |-> 0], OrEmptyObject(args, "rotation")),
     scale    |-> Spread([x |-> 1, y |-> 1, z |-> 1], OrEmptyObject(args, "scale"))]

\* the defaults of createMaterial; the numbers are in tenths (8 is 0.8)
DefaultMaterial ==
    [color |-> [r |-> 8, g |-> 8, b |-> 8, a |-> 10],
     metalness |-> 0, roughness |-> 5, opacity |-> 10,
     transparent |-> FALSE, wireframe |-> FALSE]

\* as createMaterial, but the color given is merged onto the default color
createMaterial_MergesColor(args) ==
    LET overrides == OrEmptyObject(args, "overrides")
        merged == Spread(DefaultMaterial, overrides)
    IN IF Has(overrides, "color")
         THEN [merged EXCEPT !.color = Spread(DefaultMaterial.color, overrides.color)]
         ELSE merged

createMaterial(args) == Spread(DefaultMaterial, OrEmptyObject(args, "overrides"))

\* ---------------------------------------------------------------------------
\* The factory functions of the Go binding (go/models.go)
\* ---------------------------------------------------------------------------
\* A Go struct is a record of all its fields, under their Go names. A pointer
\* field is <<>> when nil and <<v>> when it points to v. Numbers are in tenths,
\* as in DefaultMaterial.

NewTransform ==
    [Position |-> [X |-> 0, Y |-> 0, Z |-> 0],
     Rotation |-> [X |-> 0, Y |-> 0, Z |-> 0],
     Scale    |-> [X |-> 1, Y |-> 1, Z |-> 1]]

NewTransformWithPosition(x, y, z) ==
    [Position |-> [X |-> x, Y |-> y, Z |-> z],
     Rotation |-> [X |-> 0, Y |-> 0, Z |-> 0],
     Scale    |-> [X |-> 1, Y |-> 1, Z |-> 1]]

\* the zero value of Material: every field left out of a composite literal
ZeroMaterial ==
    [Color |-> <<>>, Emissive |-> <<>>, Metalness |-> 0, Roughness |-> 0, Opacity |-> 0,
     Transparent |-> FALSE, Wireframe |-> FALSE, Texture |-> ""]

\* as NewMaterial, but only the color is set
NewMaterial_ColorOnly ==
    [ZeroMaterial EXCEPT !.Color = << [R |-> 8, G |-> 8, B |-> 8, A |-> 10] >>]

NewMaterial ==
    [ZeroMaterial EXCEPT !.Color = << [R |-> 8, G |-> 8, B |-> 8, A |-> 10] >>,
                         !.Metalness = 0, !.Roughness = 5, !.Opacity = 10,
                         !.Transparent = FALSE, !.Wireframe = FALSE]

\* ---------------------------------------------------------------------------
\* The JSON encoding of the Go types: the struct tags of go/models.go, read by
\* encoding/json
\* ---------------------------------------------------------------------------
\* A JSON document is its value: an object is a function of its keys, an array
\* a sequence, null is Null. A slice or a map of Go is [isNil, elems]: nil and
\* empty are two values of length 0.

\* a field of a struct: its Go name, its key in JSON, whether its tag says
\* omitempty, its kind, and the type of what it holds, points to or lists
Field(go, json, omitempty, kind, elem) ==
    [go |-> go, json |-> json, omitempty |-> omitempty, kind |-> kind, elem |-> elem]

\* The fields of map[string]interface{}, *Geometry, *time.Time, *Bounds, *Camera,
\* []Light and *Environment are nil in the values sent and are left out of the
\* tables: with omitempty they are in no document.
Vector3Fields ==
    { Field("X", "x", FALSE, "number", ""),
      Field("Y", "y", FALSE, "number", ""),
      Field("Z", "z", FALSE, "number", "") }

Fields(type) ==
    CASE type \in {"Vector3", "Euler3", "Scale3"} -> Vector3Fields
      [] type = "Transform" ->
           { Field("Position", "position", FALSE, "struct", "Vector3"),
             Field("Rotation", "rotation", FALSE, "struct", "Euler3"),
             Field("Scale", "scale", FALSE, "struct", "Scale3") }
      [] type = "Color" ->
           { Field("R", "r", FALSE, "number", ""),
             Field("G", "g", FALSE, "number", ""),
             Field("B", "b", FALSE, "number", ""),
             Field("A", "a", TRUE, "number", "") }
      [] type = "Material" ->
           { Field("Color", "color", TRUE, "pointer", "Color"),
             Field("Emissive", "emissive", TRUE, "pointer", "Color"),
             Field("Metalness", "metalness", TRUE, "number", ""),
             Field("Roughness", "roughness", TRUE, "number", ""),
             Field("Opacity", "opacity", TRUE, "number", ""),
             Field("Transparent", "transparent", TRUE, "bool", ""),
             Field("Wireframe", "wireframe", TRUE, "bool", ""),
             Field("Texture", "texture", TRUE, "string", "") }
      [] type = "Keyframe" ->
           { Field("Time", "time", FALSE, "number", ""),
             Field("Value", "value", FALSE, "number", ""),
             Field("Easing", "easing", TRUE, "string", "") }
      [] type = "AnimationTrack" ->
           { Field("Property", "property", FALSE, "string", ""),
             Field("Keyframes", "keyframes", FALSE, "slice", "Keyframe") }
      [] type = "Animation" ->
           { Field("Name", "name", FALSE, "string", ""),
             Field("Duration", "duration", FALSE, "number", ""),
             Field("Loop", "loop", TRUE, "bool", ""),
             Field("Tracks", "tracks", FALSE, "slice", "AnimationTrack") }
      [] type = "SceneNode" ->
           { Field("ID", "id", FALSE, "string", ""),
             Field("Type", "type", FALSE, "string", ""),
             Field("Name", "name", FALSE, "string", ""),
             Field("Transform", "transform", FALSE, "struct", "Transform"),
             Field("Material", "material", TRUE, "pointer", "Material"),
             Field("Visible", "visible", TRUE, "bool", ""),
             Field("Tags", "tags", TRUE, "slice", ""),
             Field("Status", "status", TRUE, "string", ""),
             Field("Animations", "animations", TRUE, "slice", "Animation"),
             Field("Parent", "parent", TRUE, "string", ""),
             Field("Children", "children", TRUE, "slice", "") }
      [] type = "SceneEdge" ->
           { Field("ID", "id", FALSE, "string", ""),
             Field("Source", "source", FALSE, "string", ""),
             Field("Target", "target", FALSE, "string", ""),
             Field("Type", "type", TRUE, "string", ""),
             Field("Color", "color", TRUE, "pointer", "Color"),
             Field("Width", "width", TRUE, "number", ""),
             Field("Style", "style", TRUE, "string", ""),
             Field("Opacity", "opacity", TRUE, "number", ""),
             Field("Animations", "animations", TRUE, "slice", "Animation") }
      [] type = "SceneGraph" ->
           { Field("Nodes", "nodes", FALSE, "slice", "SceneNode"),
             Field("Edges", "edges", FALSE, "slice", "SceneEdge") }
      [] type = "SceneMetadata" ->
           { Field("Name", "name", FALSE, "string", ""),
             Field("Description", "description", TRUE, "string", ""),
             Field("Author", "author", TRUE, "string", ""),
             Field("Version", "version", TRUE, "string", ""),
             Field("Tags", "tags", TRUE, "slice", "") }
      [] type = "SceneFile" ->
           { Field("Version", "version", FALSE, "string", ""),
             Field("Metadata", "metadata", FALSE, "struct", "SceneMetadata"),
             Field("Scene", "scene", FALSE, "struct", "SceneGraph"),
             Field("Assets", "assets", TRUE, "map", "") }

\* the field of the type with this Go name
FieldOf(type, go) == CHOOSE f \in Fields(type) : f.go = go

\* the field of the type with this key
FieldAt(type, json) == CHOOSE f \in Fields(type) : f.json = json

Null == "null"

\* the document is null (asked of the document of a pointer, a slice or a map)
IsNull(doc) == ToString(doc) = ToString(Null)

NilList == [isNil |-> TRUE, elems |-> <<>>]

\* the zero value of a kind: what a fresh variable holds
RECURSIVE Zero(_, _)
Zero(kind, elem) ==
    CASE kind = "number" -> 0
      [] kind = "string" -> ""
      [] kind = "bool" -> FALSE
      [] kind = "pointer" -> <<>>
      [] kind \in {"slice", "map"} -> NilList
      [] kind = "struct" -> [go \in { f.go : f \in Fields(elem) } |->
                               Zero(FieldOf(elem, go).kind, FieldOf(elem, go).elem)]

\* omitempty leaves out false, 0, "", a nil pointer, and a slice or a map of
\* length 0; a struct is never empty
IsEmptyValue(kind, x) ==
    CASE kind = "number" -> x = 0
      [] kind = "string" -> x = ""
      [] kind = "bool" -> x = FALSE
      [] kind = "pointer" -> x = <<>>
      [] kind = "slice" -> Len(x.elems) = 0
      [] kind = "map" -> DOMAIN x.elems = {}
      [] kind = "struct" -> FALSE

\* json.Marshal of a value of this kind
RECURSIVE Marshal(_, _, _)
Marshal(kind, elem, x) ==
    CASE kind \in {"number", "string", "bool"} -> x
      [] kind = "pointer" -> IF x = <<>> THEN Null ELSE Marshal("struct", elem, x[1])
      [] kind = "slice" ->
           IF x.isNil THEN Null
           ELSE [i \in DOMAIN x.elems |->
                   IF elem = "" THEN x.elems[i] ELSE Marshal("struct", elem, x.elems[i])]
      [] kind = "map" -> IF x.isNil THEN Null ELSE x.elems
      [] kind = "struct" ->
           LET written == { f \in Fields(elem) : ~(f.omitempty /\ IsEmptyValue(f.kind, x[f.go])) }
           IN [key \in { f.json : f \in written } |->
                 Marshal(FieldAt(elem, key).kind, FieldAt(elem, key).elem,
                         x[FieldAt(elem, key).go])]

\* as Absent, but the alpha of a color gets its documented default, 1
Absent_DocumentedDefault(type, f) ==
    IF type = "Color" /\ f.go = "A" THEN 10 ELSE Zero(f.kind, f.elem)

\* the field of a fresh value whose key the document lacks: left as it is
Absent(type, f) == Zero(f.kind, f.elem)

\* json.Unmarshal of a document into a fresh value of this kind
RECURSIVE Unmarshal(_, _, _)
Unmarshal(kind, elem, doc) ==
    CASE kind \in {"number", "string", "bool"} -> doc
      [] kind = "pointer" -> IF IsNull(doc) THEN <<>> ELSE << Unmarshal("struct", elem, doc) >>
      [] kind = "slice" ->
           IF IsNull(doc) THEN NilList
           ELSE [isNil |-> FALSE,
                 elems |-> [i \in DOMAIN doc |->
                              IF elem = "" THEN doc[i] ELSE Unmarshal("struct", elem, doc[i])]]
      [] kind = "map" -> IF IsNull(doc) THEN NilList ELSE [isNil |-> FALSE, elems |-> doc]
      [] kind = "struct" ->
           [go \in { f.go : f \in Fields(elem) } |->
              LET f == FieldOf(elem, go)
              IN IF Has(doc, f.json) THEN Unmarshal(f.kind, f.elem, doc[f.json])
                 ELSE Absent(elem, f)]

\* a reader of the TypeScript side: `a?: number; // 0-1, default 1`
AlphaRead(doc) == IF Has(doc, "a") THEN doc.a ELSE 10

\* ---------------------------------------------------------------------------
\* generateId
\* ---------------------------------------------------------------------------
\* A string is the sequence of its characters here. A value of Math.random() is
\* the sequence of the base-36 digits of its fraction, without trailing zeros:
\* 0 is <<>>, 0.5 is <<"i">>.

\* random.toString(36)
toString36(random) == IF random = <<>> THEN <<"0">> ELSE <<"0", ".">> \o random

\* as substr, but to the end of the string
substr_ToEnd(str, start, length) == SubSeq(str, start + 1, Len(str))

\* str.substr(start, length): the characters from index start (0-based), at
\* most `length` of them, none when the string ends before start
substr(str, start, length) ==
    SubSeq(str, start + 1, IF start + length < Len(str) THEN start + length ELSE Len(str))

generateId(random) == substr(toString36(random), 2, 9)

\* values of Math.random(): 0, fractions of one and two digits, and fractions
\* of nine digits and more that share their first nine
NineDigits == <<"a", "b", "c", "d", "e", "f", "g", "h", "i">>

Randoms ==
    { <<>> }
      \cup { <<d>> : d \in {"7", "z"} }
      \cup { <<c, d>> : c \in {"0", "7", "z"}, d \in {"7", "z"} }
      \cup { NineDigits, NineDigits \o <<"1">>, NineDigits \o <<"z">>, NineDigits \o <<"1", "z">> }

\* ---------------------------------------------------------------------------
\* The arguments the factory functions are called with
\* ---------------------------------------------------------------------------
\* the value undefined of JavaScript
Undefined == "undefined"

\* the shapes of an argument of type Partial<Vector3>: not given, or given with
\* some of x, y, z holding a number and some holding undefined
PartialShapes ==
    { [given |-> FALSE, numbers |-> {}, undefineds |-> {}] }
      \cup { shape \in [given : {TRUE}, numbers : SUBSET {"x", "y", "z"},
                        undefineds : SUBSET {"x", "y", "z"}] :
               shape.numbers \cap shape.undefineds = {} }

\* the argument of this name and shape, its numbers taken from v: an object with
\* the one key `name`, or with no key when the argument is not given
PartialArg(name, shape, v) ==
    IF shape.given
      THEN [a \in {name} |->
              [k \in shape.numbers \cup shape.undefineds |->
                 IF k \in shape.undefineds THEN Undefined ELSE v[k]]]
      ELSE <<>>

\* a color with its alpha and one without, in tenths
Colors == { [r |-> 10, g |-> 0, b |-> 0], [r |-> 10, g |-> 0, b |-> 0, a |-> 5] }

Flags == {TRUE, FALSE}

\* ---------------------------------------------------------------------------
\* The Go values sent through JSON
\* ---------------------------------------------------------------------------
\* the nil list, the empty one, and the lists of one and of two elements of S
Lists(S) ==
    { NilList, [isNil |-> FALSE, elems |-> <<>>] }
      \cup { [isNil |-> FALSE, elems |-> <<e>>] : e \in S }
      \cup { [isNil |-> FALSE, elems |-> <<e, e>>] : e \in S }

GoColors == [R : {0, 8}, G : {4}, B : {2}, A : {0, 9, 10}]

GoMaterials ==
    [Color : { <<>> } \cup { <<c>> : c \in GoColors }, Emissive : { <<>> },
     Metalness : {0, 5}, Roughness : {0, 5}, Opacity : {0, 10},
     Transparent : BOOLEAN, Wireframe : BOOLEAN, Texture : {"", "t"}]

GoKeyframes == [Time : {0, 5}, Value : {0, 10}, Easing : {"", "linear"}]

GoTracks ==
    [Property : {"position"},
     Keyframes : Lists({ k \in GoKeyframes : k.Easing = "" /\ k.Value = 0 })]

GoAnimations ==
    [Name : {"", "spin"}, Duration : {0, 10}, Loop : BOOLEAN,
     Tracks : Lists({ t \in GoTracks : Len(t.Keyframes.elems) = 1 })]

GoNodes ==
    [ID : {"", "a"}, Type : {"server"}, Name : {"n"},
     Transform : { NewTransform, Zero("struct", "Transform") },
     Material : { <<>>, <<NewMaterial>>, <<ZeroMaterial>> },
     Visible : BOOLEAN, Tags : { NilList }, Status : {"", "healthy"},
     Animations : { NilList,
                    [isNil |-> FALSE,
                     elems |-> << [Name |-> "spin", Duration |-> 0, Loop |-> FALSE,
                                   Tracks |-> NilList] >>] },
     Parent : {"", "p"},
     Children : Lists({"c"})]

GoEdges ==
    [ID : {"e"}, Source : {"a"}, Target : {"b"}, Type : {""},
     Color : { <<>>, << [R |-> 8, G |-> 4, B |-> 2, A |-> 0] >> },
     Width : {0, 20}, Style : {"", "dashed"}, Opacity : {0, 5},
     Animations : { NilList }]

GoGraphs ==
    [Nodes : Lists({ n \in GoNodes :
                       /\ n.Material = <<>> /\ n.Animations = NilList /\ n.Children = NilList
                       /\ n.Parent = "" /\ n.Status = "" /\ n.Transform = NewTransform }),
     Edges : Lists({ e \in GoEdges : e.Color = <<>> /\ e.Style = "" /\ e.Opacity = 0 })]

GoSceneFiles ==
    [Version : {"", "0.1.0"},
     Metadata : [Name : {"", "S"}, Description : {""}, Author : {""}, Version : {""},
                 Tags : Lists({"t"})],
     Scene : { g \in GoGraphs : Len(g.Nodes.elems) + Len(g.Edges.elems) <= 2 },
     Assets : { NilList, [isNil |-> FALSE, elems |-> <<>>],
                [isNil |-> FALSE, elems |-> [k \in {"texture1"} |-> "t.jpg"]] }]

\* the values of a type that are sent
GoValues(type) ==
    CASE type = "Color" -> GoColors
      [] type = "Material" -> GoMaterials
      [] type = "Keyframe" -> GoKeyframes
      [] type = "Animation" -> GoAnimations
      [] type = "SceneNode" -> GoNodes
      [] type = "SceneEdge" -> GoEdges
      [] type = "SceneGraph" -> GoGraphs
      [] type = "SceneFile" -> GoSceneFiles

\* ---------------------------------------------------------------------------
\* The scene file of a Go program and the memory it points into (go/models.go)
\*
\* A slice is its header: the address of its backing array, its length and its
\* capacity. An array is the sequence of the cells written so far (no operation
\* reads a cell past the length). A pointer is <<>> (nil) or <<target>>: the
\* target of a *time.Time is the address of a cell, the target of a *SceneNode
\* the address of an array and an index into it. Memory nothing refers to is
\* collected.
\* ---------------------------------------------------------------------------
\* time.Now(): the instant of NewSceneFile, and a later one
Times == {1, 2}

\* a node as the README's program builds one
ServerNode(id, name) ==
    [Zero("struct", "SceneNode") EXCEPT !.ID = id, !.Type = "server", !.Name = name,
                                        !.Transform = NewTransform,
                                        !.Material = <<NewMaterial>>,
                                        !.Status = "healthy"]

\* an edge as the README's program builds one
ConnEdge(id, source, target) ==
    [Zero("struct", "SceneEdge") EXCEPT !.ID = id, !.Source = source, !.Target = target,
                                        !.Type = "data-connection", !.Width = 1,
                                        !.Style = "solid"]

\* the nodes a program adds: two with the same id, and another
AddedNodes == { ServerNode("a", "n"), ServerNode("a", "m"), ServerNode("b", "n") }

\* the edges a program adds: two with the same id, ends that name no node
AddedEdges == { ConnEdge("e", "a", "b"), ConnEdge("e", "z", "b"), ConnEdge("f", "a", "z") }

\* the ids a program looks for
NodeIds == {"a", "b"}
EdgeIds == {"e", "f"}

\* the name a program writes through a pointer to a node
WrittenName == "w"

\* an address no cell has
Allocate(cells) ==
    CHOOSE a \in 1..(Cardinality(DOMAIN cells) + 1) : a \notin DOMAIN cells

\* []SceneNode{}: an empty slice has no backing array
EmptySlice == [array |-> 0, len |-> 0, cap |-> 0]

\* the elements of a slice
Elems(arrays, s) == IF s.len = 0 THEN <<>> ELSE SubSeq(arrays[s.array], 1, s.len)

\* append(s, e): in place when the capacity allows it, and otherwise into a new
\* array, of a capacity newcap the runtime chooses, that the elements are copied to
append(arrays, s, e, newcap) ==
    IF s.len < s.cap
      THEN [arrays |-> [arrays EXCEPT ![s.array] = Append(Elems(arrays, s), e)],
            slice |-> [s EXCEPT !.len = s.len + 1]]
      ELSE LET a == Allocate(arrays)
           IN [arrays |-> (a :> Append(Elems(arrays, s), e)) @@ arrays,
               slice |-> [array |-> a, len |-> s.len + 1, cap |-> newcap]]

\* the capacities the runtime may choose for a slice that grows to length len
Capacities(len) == len..(IF len < MaxAdds THEN MaxAdds ELSE len)

\* the first index of a cell with the id, or 0
FirstIndex(cells, id) ==
    LET hits == { i \in 1..Len(cells) : cells[i].ID = id }
    IN IF hits = {} THEN 0 ELSE CHOOSE i \in hits : \A j \in hits : i <= j

\* as Find, but the last element with the id is the one returned
Find_Last(arrays, s, id) ==
    LET hits == { i \in 1..s.len : arrays[s.array][i].ID = id }
    IN IF hits = {} THEN <<>>
       ELSE << [array |-> s.array, index |-> CHOOSE i \in hits : \A j \in hits : j <= i] >>

\* the loop of FindNode and of FindEdge: &s[i] of the first i with s[i].ID == id,
\* and nil when the loop ends
Find(arrays, s, id) ==
    LET i == FirstIndex(Elems(arrays, s), id)
    IN IF i = 0 THEN <<>> ELSE << [array |-> s.array, index |-> i] >>

\* the cells of f at the addresses of S
Restrict(f, S) == [a \in (DOMAIN f) \cap S |-> f[a]]

\* the arrays a pointer of the program keeps alive
Held(p, to) == IF p.to = to /\ p.at # <<>> THEN {p.at[1].array} ELSE {}

\* the memory that is left when what nothing refers to is collected
Collect(h, sfv, p) ==
    [nodes |-> Restrict(h.nodes, {sfv.Scene.Nodes.array} \cup Held(p, "node")),
     edges |-> Restrict(h.edges, {sfv.Scene.Edges.array} \cup Held(p, "edge")),
     times |-> Restrict(h.times, {sfv.Metadata.Created[1], sfv.Metadata.Updated[1]})]

\* NewSceneFile(name) at the instant now: Created and Updated are the same pointer
NewSceneFile(name) ==
    [Version |-> "0.1.0",
     Metadata |-> [Name |-> name, Created |-> <<1>>, Updated |-> <<1>>],
     Scene |-> [Nodes |-> EmptySlice, Edges |-> EmptySlice],
     Assets |-> [isNil |-> FALSE, elems |-> <<>>]]

\* GetNodeCount and GetEdgeCount
GetNodeCount(sfv) == sfv.Scene.Nodes.len
GetEdgeCount(sfv) == sfv.Scene.Edges.len

\* no pointer held
NoPointer == [to |-> "none", id |-> "", at |-> <<>>]

\* ---------------------------------------------------------------------------
\* The state machine: a caller holds a scene file and validates it
\* ---------------------------------------------------------------------------
NotCalled == [status |-> "not called"]

\* no Go program runs
NoSceneFile == sf = NotCalled /\ heap = NotCalled /\ ptr = NotCalled /\ log = NotCalled

Init ==
    /\ \E v \in Objects({"version"}, {"", "0.1.0"}),
          m \in Objects({"metadata"}, SceneMetadatas),
          g \in Objects({"scene"}, SceneGraphs) : scene = SceneFile(v, m, g)
    /\ result = NotCalled
    /\ stats = NotCalled
    /\ call = NotCalled
    /\ made = NotCalled
    /\ ids = <<>>
    /\ trip = NotCalled
    /\ NoSceneFile

\* as Validate, but the lists the scene lacks are written into it
Validate_FillsDefaults ==
    /\ result = NotCalled
    /\ result' = validateScene(scene)
    /\ scene' = IF Has(scene, "scene")
                  THEN [scene EXCEPT !.scene = @ @@ [nodes |-> <<>>, edges |-> <<>>]]
                  ELSE scene
    /\ UNCHANGED <<stats, call, made, ids, trip, goVars>>

Validate ==
    /\ result = NotCalled
    /\ result' = validateScene(scene)
    /\ UNCHANGED <<scene, stats, call, made, ids, trip, goVars>>

Next == Validate

Spec == Init /\ [][Next]_vars

\* ---------------------------------------------------------------------------
\* The state machine of a caller that validates a scene file and takes its
\* statistics, in either order
\* ---------------------------------------------------------------------------
InitStats ==
    /\ \E g \in Objects({"scene"}, StatGraphs) :
         scene = SceneFile([version |-> "0.1.0"], [metadata |-> [name |-> "S"]], g)
    /\ result = NotCalled
    /\ stats = NotCalled
    /\ call = NotCalled
    /\ made = NotCalled
    /\ ids = <<>>
    /\ trip = NotCalled
    /\ NoSceneFile

CalculateStats ==
    /\ stats = NotCalled
    /\ stats' = calculateSceneStats(scene)
    /\ UNCHANGED <<scene, result, call, made, ids, trip, goVars>>

NextStats == Validate \/ CalculateStats

SpecStats == InitStats /\ [][NextStats]_vars

\* ---------------------------------------------------------------------------
\* The state machine of a caller of the factory functions
\* ---------------------------------------------------------------------------
InitFactory ==
    /\ scene = SceneFile([version |-> "0.1.0"], [metadata |-> [name |-> "S"]],
                         [scene |-> [nodes |-> <<>>, edges |-> <<>>]])
    /\ result = NotCalled
    /\ stats = NotCalled
    /\ call = NotCalled
    /\ made = NotCalled
    /\ ids = <<>>
    /\ trip = NotCalled
    /\ NoSceneFile

CreateTransform ==
    /\ call = NotCalled
    /\ \E p \in PartialShapes, r \in PartialShapes, s \in PartialShapes :
         \E pv \in [p.numbers -> {0, 10}], rv \in [r.numbers -> {0, 10}],
            sv \in [s.numbers -> {0, 10}] :
           LET args == PartialArg("position", p, pv) @@ PartialArg("rotation", r, rv)
                         @@ PartialArg("scale", s, sv)
           IN /\ call' = [fn |-> "createTransform", args |-> args]
              /\ made' = createTransform(args)
    /\ UNCHANGED <<scene, result, stats, ids, trip, goVars>>

CreateMaterial ==
    /\ call = NotCalled
    /\ \E color \in Objects({"color"}, Colors),
          emissive \in Objects({"emissive"}, Colors),
          metalness \in Objects({"metalness"}, {0, 10}),
          roughness \in Objects({"roughness"}, {0, 10}),
          opacity \in Objects({"opacity"}, {0, 5}),
          transparent \in Objects({"transparent"}, Flags),
          wireframe \in Objects({"wireframe"}, Flags) :
         \E args \in Objects({"overrides"},
                              { color @@ emissive @@ metalness @@ roughness @@ opacity
                                  @@ transparent @@ wireframe }) :
           /\ call' = [fn |-> "createMaterial", args |-> args]
           /\ made' = createMaterial(args)
    /\ UNCHANGED <<scene, result, stats, ids, trip, goVars>>

CallNewTransform ==
    /\ call = NotCalled
    /\ call' = [fn |-> "NewTransform", args |-> <<>>]
    /\ made' = NewTransform
    /\ UNCHANGED <<scene, result, stats, ids, trip, goVars>>

CallNewTransformWithPosition ==
    /\ call = NotCalled
    /\ \E x \in {0, 10}, y \in {0, 10}, z \in {0, 10} :
         /\ call' = [fn |-> "NewTransformWithPosition", args |-> [x |-> x, y |-> y, z |-> z]]
         /\ made' = NewTransformWithPosition(x, y, z)
    /\ UNCHANGED <<scene, result, stats, ids, trip, goVars>>

CallNewMaterial ==
    /\ call = NotCalled
    /\ call' = [fn |-> "NewMaterial", args |-> <<>>]
    /\ made' = NewMaterial
    /\ UNCHANGED <<scene, result, stats, ids, trip, goVars>>

NextFactory ==
    \/ CreateTransform
    \/ CreateMaterial
    \/ CallNewTransform
    \/ CallNewTransformWithPosition
    \/ CallNewMaterial

SpecFactory == InitFactory /\ [][NextFactory]_vars

\* ---------------------------------------------------------------------------
\* The state machine of a caller that generates ids, one after the other
\* ---------------------------------------------------------------------------
InitIds ==
    /\ scene = SceneFile([version |-> "0.1.0"], [metadata |-> [name |-> "S"]],
                         [scene |-> [nodes |-> <<>>, edges |-> <<>>]])
    /\ result = NotCalled
    /\ stats = NotCalled
    /\ call = NotCalled
    /\ made = NotCalled
    /\ ids = <<>>
    /\ trip = NotCalled
    /\ NoSceneFile

GenerateId ==
    /\ Len(ids) < MaxCalls
    /\ \E random \in Randoms :
         ids' = Append(ids, [random |-> random, id |-> generateId(random)])
    /\ UNCHANGED <<scene, result, stats, call, made, trip, goVars>>

NextIds == GenerateId

SpecIds == InitIds /\ [][NextIds]_vars

\* ---------------------------------------------------------------------------
\* The state machine of a Go program that writes a value as JSON and reads it
\* back: data, _ := json.Marshal(original); json.Unmarshal(data, &result)
\* ---------------------------------------------------------------------------
InitJson ==
    /\ scene = SceneFile([version |-> "0.1.0"], [metadata |-> [name |-> "S"]],
                         [scene |-> [nodes |-> <<>>, edges |-> <<>>]])
    /\ result = NotCalled
    /\ stats = NotCalled
    /\ call = NotCalled
    /\ made = NotCalled
    /\ ids = <<>>
    /\ trip = NotCalled
    /\ NoSceneFile

MarshalUnmarshal ==
    /\ trip = NotCalled
    /\ \E type \in {"Color", "Material", "Keyframe", "Animation", "SceneNode", "SceneEdge",
                    "SceneGraph", "SceneFile"} :
         \E original \in GoValues(type) :
           LET data == Marshal("struct", type, original)
           IN trip' = [type |-> type, original |-> original, data |-> data,
                       result |-> Unmarshal("struct", type, data)]
    /\ UNCHANGED <<scene, result, stats, call, made, ids, goVars>>

NextJson == MarshalUnmarshal

SpecJson == InitJson /\ [][NextJson]_vars

\* ---------------------------------------------------------------------------
\* The state machine of a Go program that makes a scene file with NewSceneFile
\* and then calls its methods
\* ---------------------------------------------------------------------------
InitGo ==
    /\ scene = SceneFile([version |-> "0.1.0"], [metadata |-> [name |-> "S"]],
                         [scene |-> [nodes |-> <<>>, edges |-> <<>>]])
    /\ result = NotCalled
    /\ stats = NotCalled
    /\ call = NotCalled
    /\ made = NotCalled
    /\ ids = <<>>
    /\ trip = NotCalled
    /\ sf = NewSceneFile("My Infrastructure")
    /\ heap = [nodes |-> <<>>, edges |-> <<>>, times |-> (1 :> 1)]
    /\ ptr = NoPointer
    /\ log = [nodes |-> <<>>, edges |-> <<>>, created |-> 1, op |-> "NewSceneFile"]

\* sf.AddNode(node)
AddNode ==
    /\ Len(log.nodes) + Len(log.edges) < MaxAdds
    /\ \E node \in AddedNodes, newcap \in Capacities(sf.Scene.Nodes.len + 1) :
         LET r == append(heap.nodes, sf.Scene.Nodes, node, newcap)
         IN /\ sf' = [sf EXCEPT !.Scene.Nodes = r.slice]
            /\ heap' = Collect([heap EXCEPT !.nodes = r.arrays], sf', ptr)
            /\ log' = [log EXCEPT !.nodes = Append(@, node), !.op = "AddNode"]
    /\ UNCHANGED <<scene, result, stats, call, made, ids, trip, ptr>>

\* sf.AddEdge(edge)
AddEdge ==
    /\ Len(log.nodes) + Len(log.edges) < MaxAdds
    /\ \E edge \in AddedEdges, newcap \in Capacities(sf.Scene.Edges.len + 1) :
         LET r == append(heap.edges, sf.Scene.Edges, edge, newcap)
         IN /\ sf' = [sf EXCEPT !.Scene.Edges = r.slice]
            /\ heap' = Collect([heap EXCEPT !.edges = r.arrays], sf', ptr)
            /\ log' = [log EXCEPT !.edges = Append(@, edge), !.op = "AddEdge"]
    /\ UNCHANGED <<scene, result, stats, call, made, ids, trip, ptr>>

\* as UpdateTimestamp, but the instant is written through the pointer: *Updated = now
UpdateTimestamp_WritesThrough ==
    /\ \E now \in Times :
         /\ heap' = [heap EXCEPT !.times[sf.Metadata.Updated[1]] = now]
         /\ sf' = sf
    /\ log' = [log EXCEPT !.op = "UpdateTimestamp"]
    /\ UNCHANGED <<scene, result, stats, call, made, ids, trip, ptr>>

\* sf.UpdateTimestamp(): now := time.Now(); sf.Metadata.Updated = &now
UpdateTimestamp ==
    /\ \E now \in Times :
         LET a == Allocate(heap.times)
         IN /\ sf' = [sf EXCEPT !.Metadata.Updated = <<a>>]
            /\ heap' = Collect([heap EXCEPT !.times = (a :> now) @@ @], sf', ptr)
    /\ log' = [log EXCEPT !.op = "UpdateTimestamp"]
    /\ UNCHANGED <<scene, result, stats, call, made, ids, trip, ptr>>

\* p := sf.FindNode(id)
FindNode ==
    /\ \E id \in NodeIds :
         ptr' = [to |-> "node", id |-> id, at |-> Find(heap.nodes, sf.Scene.Nodes, id)]
    /\ heap' = Collect(heap, sf, ptr')
    /\ log' = [log EXCEPT !.op = "FindNode"]
    /\ UNCHANGED <<scene, result, stats, call, made, ids, trip, sf>>

\* p := sf.FindEdge(id)
FindEdge ==
    /\ \E id \in EdgeIds :
         ptr' = [to |-> "edge", id |-> id, at |-> Find(heap.edges, sf.Scene.Edges, id)]
    /\ heap' = Collect(heap, sf, ptr')
    /\ log' = [log EXCEPT !.op = "FindEdge"]
    /\ UNCHANGED <<scene, result, stats, call, made, ids, trip, sf>>

NextGo == AddNode \/ AddEdge \/ UpdateTimestamp \/ FindNode \/ FindEdge

SpecGo == InitGo /\ [][NextGo]_vars

\* ---------------------------------------------------------------------------
\* The same program, which also writes through the pointer FindNode gave it:
\* p := sf.FindNode(id) ... p.Name = "w"
\* ---------------------------------------------------------------------------
WriteNode ==
    /\ ptr.to = "node" /\ ptr.at # <<>>
    /\ heap' = [heap EXCEPT !.nodes[ptr.at[1].array][ptr.at[1].index].Name = WrittenName]
    /\ log' = [log EXCEPT !.op = "WriteNode"]
    /\ UNCHANGED <<scene, result, stats, call, made, ids, trip, sf, ptr>>

NextGoPointer == AddNode \/ AddEdge \/ UpdateTimestamp \/ FindNode \/ FindEdge \/ WriteNode

SpecGoPointer == InitGo /\ [][NextGoPointer]_vars

\* ---------------------------------------------------------------------------
\* What the claims speak of, read off the scene file itself
\* ---------------------------------------------------------------------------
Called == result # NotCalled

Returned == result.status = "returned"

HasGraph(s) == Has(s, "scene")

NodesOf(s) == IF HasGraph(s) /\ Has(s.scene, "nodes") THEN s.scene.nodes ELSE <<>>

EdgesOf(s) == IF HasGraph(s) /\ Has(s.scene, "edges") THEN s.scene.edges ELSE <<>>

\* the element has an id, and it is not empty
GoodId(o) == Has(o, "id") /\ o.id # ""

\* the elements of the list whose id is absent or empty
WithoutId(list) == { i \in DOMAIN list : ~GoodId(list[i]) }

\* the elements of the list with this id
WithId(list, id) == { i \in DOMAIN list : GoodId(list[i]) /\ list[i].id = id }

\* the elements of the list whose id occurred earlier in the list
Repeats(list) == { i \in DOMAIN list : GoodId(list[i]) /\ \E j \in WithId(list, list[i].id) : j < i }

\* the ids of the nodes
NodeIdSet(s) == { NodesOf(s)[i].id : i \in DOMAIN NodesOf(s) \ WithoutId(NodesOf(s)) }

\* the edge's source (k = "source") or target names a node
Resolves(s, edge, k) == Has(edge, k) /\ edge[k] \in NodeIdSet(s)

\* the edges whose source (or target) names no node
Dangling(s, k) == { i \in DOMAIN EdgesOf(s) : ~Resolves(s, EdgesOf(s)[i], k) }

\* the nodes whose name is absent or empty
Nameless(s) == { i \in DOMAIN NodesOf(s) : ~(Has(NodesOf(s)[i], "name") /\ NodesOf(s)[i].name # "") }

SceneOK(s) ==
    /\ Has(s, "version") /\ s.version # ""
    /\ Has(s, "metadata") /\ Has(s.metadata, "name") /\ s.metadata.name # ""
    /\ HasGraph(s) /\ Has(s.scene, "nodes")
    /\ WithoutId(NodesOf(s)) = {} /\ Repeats(NodesOf(s)) = {}
    /\ WithoutId(EdgesOf(s)) = {} /\ Repeats(EdgesOf(s)) = {}
    /\ Dangling(s, "source") = {} /\ Dangling(s, "target") = {}

\* the ids a message can show: those of the inputs, '' and the rendering of undefined
ShownIds(S) == { o.id : o \in { x \in S : Has(x, "id") } } \cup {"", "undefined"}

NodeIdsShown == ShownIds(SceneNodes)

EdgeIdsShown == ShownIds(SceneEdges)

\* the scene with this list of edges, or of nodes, in the place of its own
WithEdges(s, l) == [s EXCEPT !.scene = [edges |-> l] @@ s.scene]

WithNodes(s, l) == [s EXCEPT !.scene = [nodes |-> l] @@ s.scene]

\* the scene with every node named
WithNames(s) ==
    IF HasGraph(s) /\ Has(s.scene, "nodes")
      THEN WithNodes(s, [i \in DOMAIN s.scene.nodes |-> [name |-> "n"] @@ s.scene.nodes[i]])
      ELSE s

\* the messages the reference checks can give on the inputs
SourceErrors == { SourceError(e) : e \in SceneEdges }

TargetErrors == { TargetError(e) : e \in SceneEdges }

\* the array without the elements equal to x
Without(arr, x) == SelectSeq(arr, LAMBDA y : y # x)

\* ---------------------------------------------------------------------------
\* Claims
\* ---------------------------------------------------------------------------
\* C1: validateScene returns valid = true exactly for the scenes with a non-empty
\* version and metadata.name, a node list, non-empty pairwise distinct node ids and
\* edge ids, and every edge's source and target naming a node; so a scene with
\* empty node and edge lists, a version and a name is valid.
C1_ValidIffWellFormed ==
    Called =>
      /\ (Returned /\ result.valid) <=> SceneOK(scene)
      /\ ( /\ Truthy(scene, "version")
           /\ ~NoName(scene)
           /\ HasGraph(scene) /\ Has(scene.scene, "nodes")
           /\ NodesOf(scene) = <<>> /\ EdgesOf(scene) = <<>> ) => (Returned /\ result.valid)

C1_Witness ==
    /\ Returned /\ result.valid
    /\ Len(NodesOf(scene)) = 2 /\ Len(EdgesOf(scene)) = 1

\* C2: in every result validateScene returns, valid is true exactly when errors
\* is empty, whatever warnings holds.
C2_ValidIffNoErrors == Returned => (result.valid <=> result.errors = <<>>)

C2_Witness == Returned /\ result.valid /\ Len(result.warnings) >= 2

\* C3: validateScene never throws, whichever of the required fields are absent:
\* every call returns a result.
C3_NeverThrows == Called => Returned

\* C4: the errors hold one 'All nodes must have an id' per node whose id is absent
\* or empty, and one 'Duplicate node id: {id}' per occurrence of a non-empty id
\* after its first (k occurrences give k-1).
C4_NodeIdErrors ==
    Returned =>
      /\ Count(result.errors, "All nodes must have an id")
           = Cardinality(WithoutId(NodesOf(scene)))
      /\ \A id \in NodeIdsShown :
           Count(result.errors, "Duplicate node id: " \o id)
             = (IF WithId(NodesOf(scene), id) = {} THEN 0
                ELSE Cardinality(WithId(NodesOf(scene), id)) - 1)

C4_Witness ==
    /\ Returned
    /\ Cardinality(WithId(NodesOf(scene), "a")) = 3
    /\ Count(result.errors, "Duplicate node id: a") = 2

\* C5: the errors hold one 'All edges must have an id' per edge whose id is absent
\* or empty, and one 'Duplicate edge id: {id}' per occurrence of a non-empty edge id
\* after its first; a node with the same id does not make an edge a duplicate.
C5_EdgeIdErrors ==
    Returned =>
      /\ Count(result.errors, "All edges must have an id")
           = Cardinality(WithoutId(EdgesOf(scene)))
      /\ \A id \in EdgeIdsShown :
           Count(result.errors, "Duplicate edge id: " \o id)
             = (IF WithId(EdgesOf(scene), id) = {} THEN 0
                ELSE Cardinality(WithId(EdgesOf(scene), id)) - 1)

C5_Witness ==
    /\ Returned
    /\ WithId(NodesOf(scene), "a") # {}
    /\ Cardinality(WithId(EdgesOf(scene), "a")) = 2
    /\ Count(result.errors, "Duplicate edge id: a") = 1

\* C6: each edge gets a source error exactly when its source names no node and a
\* target error exactly when its target names no node, each check on its own and
\* also for an edge whose id is absent or repeated: every such message is in the
\* errors once per edge it is due to.
C6_ReferenceErrors ==
    Returned =>
      LET edges == EdgesOf(scene)
          noSource == Dangling(scene, "source")
          noTarget == Dangling(scene, "target")
      IN /\ \A m \in SourceErrors :
              Count(result.errors, m)
                = Cardinality({ i \in noSource : SourceError(edges[i]) = m })
         /\ \A m \in TargetErrors :
              Count(result.errors, m)
                = Cardinality({ i \in noTarget : TargetError(edges[i]) = m })

C6_Witness ==
    /\ Returned
    /\ \E i \in DOMAIN EdgesOf(scene) :
         /\ i \in WithoutId(EdgesOf(scene)) \cup Repeats(EdgesOf(scene))
         /\ i \in Dangling(scene, "source")
         /\ i \notin Dangling(scene, "target")

\* C7: a node without a name gives the warning 'Node {id} has no name', once per
\* such node, and no error: the errors are those of the same scene with every node
\* named, so a scene whose only deviation is missing names is valid.
C7_NamelessIsWarning ==
    Returned =>
      LET nodes == NodesOf(scene)
          nameless == Nameless(scene)
      IN /\ Len(result.warnings) = Cardinality(nameless)
         /\ \A id \in NodeIdsShown :
              Count(result.warnings, "Node " \o id \o " has no name")
                = Cardinality({ i \in nameless : Str(nodes[i], "id") = id })
         /\ result.errors = validateScene(WithNames(scene)).errors
         /\ SceneOK(WithNames(scene)) => result.valid

C7_Witness ==
    /\ Returned /\ result.valid
    /\ Cardinality(Nameless(scene)) >= 2

\* the number of checks the scene violates
ViolatedChecks(s) ==
    (IF Has(s, "version") /\ s.version # "" THEN 0 ELSE 1)
    + (IF Has(s, "metadata") /\ Has(s.metadata, "name") /\ s.metadata.name # "" THEN 0 ELSE 1)
    + (IF HasGraph(s) /\ Has(s.scene, "nodes") THEN 0 ELSE 1)
    + Cardinality(WithoutId(NodesOf(s))) + Cardinality(Repeats(NodesOf(s)))
    + Cardinality(WithoutId(EdgesOf(s))) + Cardinality(Repeats(EdgesOf(s)))
    + Cardinality(Dangling(s, "source")) + Cardinality(Dangling(s, "target"))

\* C8: validateScene does not stop at the first error: one call returns one error
\* entry for each check the scene violates, whatever the earlier checks reported.
C8_OneErrorPerViolatedCheck ==
    Called => (Returned /\ Len(result.errors) = ViolatedChecks(scene))

\* C9: with scene.edges absent validateScene does not throw and reports what it
\* reports for the same scene with an empty edge list: no error for the edges, and
\* valid = true when the rest of the scene is valid.
C9_AbsentEdgesAsEmpty ==
    (Called /\ HasGraph(scene) /\ ~Has(scene.scene, "edges")) =>
      /\ Returned
      /\ result = validateScene(WithEdges(scene, <<>>))
      /\ SceneOK(scene) => result.valid

C9_Witness ==
    /\ Called /\ HasGraph(scene) /\ ~Has(scene.scene, "edges")
    /\ Len(NodesOf(scene)) >= 1
    /\ result.valid

\* C10: with scene.nodes absent validateScene does not throw, reports 'Scene file
\* must have nodes' with valid = false and otherwise what it reports for an empty
\* node list; a node list that is present, empty or not, gets no such error.
C10_AbsentNodes ==
    (Called /\ HasGraph(scene)) =>
      IF ~Has(scene.scene, "nodes")
        THEN /\ Returned /\ ~result.valid
             /\ Count(result.errors, "Scene file must have nodes") = 1
             /\ result.warnings = <<>>
             /\ Without(result.errors, "Scene file must have nodes")
                  = validateScene(WithNodes(scene, <<>>)).errors
        ELSE Count(result.errors, "Scene file must have nodes") = 0

C10_Witness ==
    /\ Called /\ HasGraph(scene) /\ ~Has(scene.scene, "nodes")
    /\ Len(EdgesOf(scene)) >= 1
    /\ Count(result.errors, "Scene file must have nodes") = 1

\* the scene with its absent lists of nodes and of edges put in as empty lists
WithLists(s) == [s EXCEPT !.scene = s.scene @@ [nodes |-> <<>>, edges |-> <<>>]]

\* C11 (as claimed): an absent scene.nodes or scene.edges is treated as an empty
\* list and is not itself reported: the result is that of the scene with the list
\* put in empty.
C11_AbsentListNotReported ==
    (Called /\ HasGraph(scene)) => (Returned /\ result = validateScene(WithLists(scene)))

\* C11 (amended): an absent scene.edges is treated as empty and not reported; an
\* absent scene.nodes is iterated as empty without throwing, and is itself
\* reported, by the one error 'Scene file must have nodes'.
C11_AbsentNodesReported ==
    (Called /\ HasGraph(scene)) =>
      LET filled == validateScene(WithLists(scene))
      IN /\ Returned
         /\ result.warnings = filled.warnings
         /\ filled.errors = Without(result.errors, "Scene file must have nodes")
         /\ Len(result.errors) = Len(filled.errors)
                                   + (IF Has(scene.scene, "nodes") THEN 0 ELSE 1)
         /\ ~Has(scene.scene, "nodes") => ~result.valid

C11_Witness ==
    /\ Called /\ HasGraph(scene)
    /\ ~Has(scene.scene, "nodes") /\ ~Has(scene.scene, "edges")
    /\ result.errors = <<"Scene file must have nodes">>

\* the array without its i-th element
RemoveAt(arr, i) == [j \in 1..(Len(arr) - 1) |-> IF j < i THEN arr[j] ELSE arr[j + 1]]

\* the edges that go from a node of the scene to that same node
SelfLoops(s) ==
    { i \in DOMAIN EdgesOf(s) :
        /\ Resolves(s, EdgesOf(s)[i], "source")
        /\ Has(EdgesOf(s)[i], "target")
        /\ EdgesOf(s)[i].target = EdgesOf(s)[i].source }

\* C14: an edge whose source equals its target, both naming an existing node,
\* produces no error: when its id is good and not shared, the errors are those of
\* the scene without that edge.
C14_SelfLoopNoError ==
    Returned =>
      \A i \in SelfLoops(scene) :
        WithId(EdgesOf(scene), Str(EdgesOf(scene)[i], "id")) = {i}
          => result.errors = validateScene(WithEdges(scene, RemoveAt(EdgesOf(scene), i))).errors

C14_Witness ==
    /\ Returned /\ result.valid
    /\ SelfLoops(scene) # {}
    /\ Len(NodesOf(scene)) = 2

\* ---------------------------------------------------------------------------
\* calculateSceneStats, createTransform, createMaterial: what the claims speak of
\* ---------------------------------------------------------------------------
StatsCalled == stats # NotCalled

StatsReturned == stats.status = "returned"

\* the nodes of the scene that have a transform with a position in it
Positioned(s) ==
    { i \in DOMAIN NodesOf(s) :
        Has(NodesOf(s)[i], "transform") /\ Has(NodesOf(s)[i].transform, "position") }

\* the positions of those nodes
PositionSet(s) == { NodesOf(s)[i].transform.position : i \in Positioned(s) }

Axes == {"x", "y", "z"}

\* C13: validateScene and calculateSceneStats leave their input unchanged: no
\* step of either changes any field of the scene file.
C13_InputUnchanged == [][scene' = scene]_vars

C13_Witness ==
    /\ Returned /\ StatsReturned
    /\ Len(NodesOf(scene)) = 2
    /\ ~Has(scene.scene, "edges")

\* C15: the statistics returned have nodeCount the length of scene.nodes and
\* edgeCount the length of scene.edges, 0 for an absent list, for valid and
\* invalid scenes alike.
C15_Counts ==
    StatsReturned =>
      /\ stats.nodeCount = Len(NodesOf(scene))
      /\ stats.edgeCount = Len(EdgesOf(scene))
      /\ ~Has(scene.scene, "nodes") => stats.nodeCount = 0
      /\ ~Has(scene.scene, "edges") => stats.edgeCount = 0

C15_Witness ==
    /\ StatsReturned /\ Returned /\ ~result.valid
    /\ Repeats(NodesOf(scene)) # {}
    /\ Dangling(scene, "target") # {}
    /\ stats.nodeCount = 2 /\ stats.edgeCount = 2

\* C16: the bounds returned have, on each axis by itself, min the least and max
\* the greatest component over all node positions, and size = max - min; so
\* min <= max, size >= 0, every position is inside the box, and one node alone
\* gives min = max = its position and size (0,0,0).
C16_Bounds ==
    (StatsReturned /\ Has(stats, "bounds")) =>
      LET P == PositionSet(scene)
          b == stats.bounds
      IN /\ \A ax \in Axes :
              /\ b.min[ax] \in { p[ax] : p \in P }
              /\ b.max[ax] \in { p[ax] : p \in P }
              /\ \A p \in P : b.min[ax] <= p[ax] /\ p[ax] <= b.max[ax]
              /\ b.size[ax] = b.max[ax] - b.min[ax]
              /\ b.min[ax] <= b.max[ax]
              /\ b.size[ax] >= 0
         /\ Len(NodesOf(scene)) = 1 =>
              /\ b.min \in P /\ b.max = b.min
              /\ b.size = [x |-> 0, y |-> 0, z |-> 0]

C16_Witness ==
    /\ StatsReturned /\ Has(stats, "bounds")
    /\ stats.bounds.min \notin PositionSet(scene)
    /\ stats.bounds.max \notin PositionSet(scene)
    /\ stats.bounds.size = [x |-> 15, y |-> 10, z |-> 5]

\* C17: the statistics returned have a bounds field exactly when at least one
\* node position was collected: none for an empty or absent node list, one for a
\* list with a positioned node.
C17_BoundsIffPositions ==
    StatsReturned =>
      /\ Has(stats, "bounds") <=> Positioned(scene) # {}
      /\ NodesOf(scene) = <<>> => ~Has(stats, "bounds")

C17_Witness ==
    /\ StatsReturned
    /\ ~Has(scene.scene, "nodes")
    /\ ~Has(stats, "bounds")

\* C18: calculateSceneStats never throws because a node lacks a position: a
\* node whose transform has no position, or that has no transform, is skipped
\* and the call returns, with the bounds of the positioned nodes.
C18_NoThrowForMissingPosition ==
    (StatsCalled /\ HasGraph(scene)) =>
      /\ StatsReturned
      /\ Has(stats, "bounds") <=> Positioned(scene) # {}

TransformMade == call # NotCalled /\ call.fn = "createTransform"

MaterialMade == call # NotCalled /\ call.fn = "createMaterial"

\* the component the caller supplied in this argument, if any
Supplied(args, arg, c) == Has(args, arg) /\ Has(args[arg], c)

\* the arguments without all but this one
Only(args, arg) == [k \in DOMAIN args \cap {arg} |-> args[k]]

\* C19: createTransform gives, for position, rotation and scale each by itself,
\* every component supplied as supplied and every other component its default
\* (0 for position and rotation, 1 for scale); what is supplied in one argument
\* changes nothing in the result of another.
C19_PerFieldMerge ==
    TransformMade =>
      /\ DOMAIN made = {"position", "rotation", "scale"}
      /\ \A arg \in DOMAIN made :
           /\ DOMAIN made[arg] = Axes
           /\ \A c \in Axes :
                made[arg][c] = IF Supplied(call.args, arg, c) THEN call.args[arg][c]
                               ELSE IF arg = "scale" THEN 1 ELSE 0
           /\ made[arg] = createTransform(Only(call.args, arg))[arg]

C19_Witness ==
    /\ TransformMade
    /\ ToString(call.args) = ToString([position |-> [x |-> 10, y |-> 10], scale |-> [y |-> 0]])
    /\ made = [position |-> [x |-> 10, y |-> 10, z |-> 0],
               rotation |-> [x |-> 0, y |-> 0, z |-> 0],
               scale    |-> [x |-> 1, y |-> 0, z |-> 1]]

\* the overrides of the call
Overrides == IF Has(call.args, "overrides") THEN call.args.overrides ELSE <<>>

\* C20: createMaterial gives every key of overrides the override value and every
\* other key its default (color (0.8,0.8,0.8,1), metalness 0, roughness 0.5,
\* opacity 1, transparent false, wireframe false; in tenths here); a color given
\* is the whole color of the result, so one without alpha stays without alpha.
C20_TopLevelMerge ==
    MaterialMade =>
      /\ \A k \in DOMAIN Overrides : Has(made, k) /\ made[k] = Overrides[k]
      /\ DOMAIN made = DOMAIN Overrides
                         \cup {"color", "metalness", "roughness", "opacity",
                               "transparent", "wireframe"}
      /\ ~Has(Overrides, "color") => made.color = [r |-> 8, g |-> 8, b |-> 8, a |-> 10]
      /\ ~Has(Overrides, "metalness") => made.metalness = 0
      /\ ~Has(Overrides, "roughness") => made.roughness = 5
      /\ ~Has(Overrides, "opacity") => made.opacity = 10
      /\ ~Has(Overrides, "transparent") => made.transparent = FALSE
      /\ ~Has(Overrides, "wireframe") => made.wireframe = FALSE
      /\ (Has(Overrides, "color") /\ ~Has(Overrides.color, "a")) => ~Has(made.color, "a")

C20_Witness ==
    /\ MaterialMade
    /\ DOMAIN Overrides = {"color", "wireframe"}
    /\ Overrides.color = [r |-> 10, g |-> 0, b |-> 0]
    /\ made = [color |-> [r |-> 10, g |-> 0, b |-> 0],
               metalness |-> 0, roughness |-> 5, opacity |-> 10,
               transparent |-> FALSE, wireframe |-> TRUE]

\* ---------------------------------------------------------------------------
\* generateId: what the claims speak of
\* ---------------------------------------------------------------------------
\* the characters a-z and 0-9
Alphanumeric ==
    { "a", "b", "c", "d", "e", "f", "g", "h", "i", "j", "k", "l", "m",
      "n", "o", "p", "q", "r", "s", "t", "u", "v", "w", "x", "y", "z",
      "0", "1", "2", "3", "4", "5", "6", "7", "8", "9" }

\* the first nine digits of the fraction
FirstNine(random) == SubSeq(random, 1, IF Len(random) > 9 THEN 9 ELSE Len(random))

\* C21: every id generated is a non-empty string of the characters a-z and
\* 0-9, whatever the random number in [0,1) was.
C21_NonEmptyAlphanumeric ==
    \A i \in DOMAIN ids :
      /\ ids[i].id # <<>>
      /\ \A j \in DOMAIN ids[i].id : ids[i].id[j] \in Alphanumeric

RECURSIVE Flatten(_)
Flatten(list) == IF list = <<>> THEN <<>> ELSE Head(list) \o Flatten(Tail(list))

PresenceErrors(s) ==
    (IF Has(s, "version") /\ s.version # "" THEN <<>> ELSE <<"Scene file must have a version">>)
    \o (IF Has(s, "metadata") /\ Has(s.metadata, "name") /\ s.metadata.name # ""
          THEN <<>> ELSE <<"Scene file must have a name">>)
    \o (IF HasGraph(s) /\ Has(s.scene, "nodes") THEN <<>> ELSE <<"Scene file must have nodes">>)

\* the error of the i-th element of a list of nodes or of edges about its id
IdErrorAt(list, i, missing, duplicate) ==
    IF i \in WithoutId(list) THEN <<missing>>
    ELSE IF i \in Repeats(list) THEN <<duplicate \o list[i].id>>
    ELSE <<>>

\* the errors of the i-th edge
EdgeErrorsAt(s, i) ==
    IdErrorAt(EdgesOf(s), i, "All edges must have an id", "Duplicate edge id: ")
    \o (IF i \in Dangling(s, "source") THEN <<SourceError(EdgesOf(s)[i])>> ELSE <<>>)
    \o (IF i \in Dangling(s, "target") THEN <<TargetError(EdgesOf(s)[i])>> ELSE <<>>)

\* C24: errors holds the presence errors (version, name, nodes), then the node
\* errors in the order of the nodes, then the edge errors in the order of the
\* edges, each edge's id error before its source error before its target error;
\* warnings holds the warnings in the order of the nodes.
C24_MessageOrder ==
    Returned =>
      /\ result.errors =
           PresenceErrors(scene)
           \o Flatten([i \in DOMAIN NodesOf(scene) |->
                         IdErrorAt(NodesOf(scene), i, "All nodes must have an id",
                                   "Duplicate node id: ")])
           \o Flatten([i \in DOMAIN EdgesOf(scene) |-> EdgeErrorsAt(scene, i)])
      /\ result.warnings =
           Flatten([i \in DOMAIN NodesOf(scene) |->
                      IF i \in Nameless(scene)
                        THEN <<"Node " \o Str(NodesOf(scene)[i], "id") \o " has no name">>
                        ELSE <<>>])

C24_Witness ==
    /\ Returned
    /\ Len(result.errors) = 4
    /\ result.errors[1] = "Scene file must have a version"
    /\ result.errors[2] = "Duplicate node id: a"
    /\ result.errors[3] \in SourceErrors
    /\ result.errors[4] \in TargetErrors
    /\ Len(result.warnings) = 2

\* ---------------------------------------------------------------------------
\* createTransform: the transforms it makes
\* ---------------------------------------------------------------------------
\* typeof v === 'number', for v a number or undefined
IsNumber(v) == ToString(v) # ToString(Undefined)

\* C25: every transform made by createTransform has a numeric x, y and z in each
\* of position, rotation and scale, whatever subset of x, y, z each argument
\* holds, a key holding undefined included.
C25_FullyPopulated ==
    TransformMade =>
      \A arg \in {"position", "rotation", "scale"} :
        /\ Has(made, arg)
        /\ \A c \in Axes : Has(made[arg], c) /\ IsNumber(made[arg][c])

\* ---------------------------------------------------------------------------
\* The Go factories against the TypeScript ones
\* ---------------------------------------------------------------------------
\* the Go vector holds the components of the TypeScript one
SameVector(go, ts) == go.X = ts.x /\ go.Y = ts.y /\ go.Z = ts.z

SameTransform(go, ts) ==
    /\ SameVector(go.Position, ts.position)
    /\ SameVector(go.Rotation, ts.rotation)
    /\ SameVector(go.Scale, ts.scale)

\* the Go material holds the color, metalness, roughness, opacity, transparent
\* and wireframe of the TypeScript one
SameMaterial(go, ts) ==
    /\ Len(go.Color) = 1
    /\ go.Color[1].R = ts.color.r /\ go.Color[1].G = ts.color.g
    /\ go.Color[1].B = ts.color.b /\ go.Color[1].A = ts.color.a
    /\ go.Metalness = ts.metalness
    /\ go.Roughness = ts.roughness
    /\ go.Opacity = ts.opacity
    /\ go.Transparent = ts.transparent
    /\ go.Wireframe = ts.wireframe

\* C29: NewTransform() holds what createTransform() holds,
\* NewTransformWithPosition(x, y, z) what createTransform({x, y, z}) holds, and
\* NewMaterial() the color, metalness, roughness, opacity, transparent and
\* wireframe of createMaterial().
C29_FactoriesAgree ==
    call # NotCalled =>
      /\ call.fn = "NewTransform" => SameTransform(made, createTransform(<<>>))
      /\ call.fn = "NewTransformWithPosition" =>
           SameTransform(made, createTransform([position |-> call.args]))
      /\ call.fn = "NewMaterial" => SameMaterial(made, createMaterial(<<>>))

C29_Witness ==
    /\ call # NotCalled
    /\ call.fn = "NewTransformWithPosition"
    /\ call.args = [x |-> 10, y |-> 0, z |-> 10]
    /\ made.Position = [X |-> 10, Y |-> 0, Z |-> 10]

\* ---------------------------------------------------------------------------
\* Go values through JSON: what the claims speak of
\* ---------------------------------------------------------------------------
Tripped == trip # NotCalled

\* the two values agree in every string, number and boolean and in the length
\* of every slice and map, through the structs, pointers and lists they hold
RECURSIVE Agree(_, _, _, _)
Agree(kind, elem, a, b) ==
    CASE kind \in {"number", "string", "bool"} -> a = b
      [] kind = "pointer" ->
           /\ Len(a) = Len(b)
           /\ Len(a) = 1 => Agree("struct", elem, a[1], b[1])
      [] kind = "slice" ->
           /\ Len(a.elems) = Len(b.elems)
           /\ \A i \in DOMAIN a.elems :
                IF elem = "" THEN a.elems[i] = b.elems[i]
                ELSE Agree("struct", elem, a.elems[i], b.elems[i])
      [] kind = "map" -> a.elems = b.elems
      [] kind = "struct" ->
           \A f \in Fields(elem) : Agree(f.kind, f.elem, a[f.go], b[f.go])

\* C23: a Color written by Go and read back under the rule that an absent alpha
\* is 1 keeps its alpha, alpha 0 included; and Marshal then Unmarshal in Go
\* gives back a Color equal in r, g, b and a.
C23_AlphaKept ==
    (Tripped /\ trip.type = "Color") =>
      /\ AlphaRead(trip.data) = trip.original.A
      /\ trip.result = trip.original

\* C28: Marshal then Unmarshal of a SceneFile, SceneGraph, SceneNode, SceneEdge,
\* Material, Keyframe or Animation gives back a value that agrees with the
\* original in its strings, numbers, booleans and collection lengths, a number
\* 0 and a boolean false included.
C28_RoundTrip ==
    (Tripped /\ trip.type # "Color") =>
      Agree("struct", trip.type, trip.original, trip.result)

C28_Witness ==
    /\ Tripped /\ trip.type = "SceneNode"
    /\ ~trip.original.Visible /\ ~Has(trip.data, "visible") /\ ~trip.result.Visible
    /\ trip.original.Material = <<ZeroMaterial>> /\ trip.data.material = <<>>
    /\ trip.original.Children = [isNil |-> FALSE, elems |-> <<>>]
    /\ trip.result.Children = NilList

\* ---------------------------------------------------------------------------
\* The methods of the Go scene file
\* ---------------------------------------------------------------------------
\* the scene file as the program reads it: a slice by its elements, a pointer
\* by what it points at
Deref(sfv, h) ==
    [Version |-> sfv.Version,
     Name |-> sfv.Metadata.Name,
     Created |-> h.times[sfv.Metadata.Created[1]],
     Updated |-> h.times[sfv.Metadata.Updated[1]],
     Nodes |-> Elems(h.nodes, sfv.Scene.Nodes),
     Edges |-> Elems(h.edges, sfv.Scene.Edges),
     Assets |-> sfv.Assets]

Value == Deref(sf, heap)

\* a value but for one of its parts
Besides(v, part) == [v EXCEPT ![part] = <<>>]

\* the lists are the arguments in call order, the counts the numbers of calls,
\* and Created is the instant of creation
ListsAreArguments ==
    /\ Value.Nodes = log.nodes
    /\ Value.Edges = log.edges
    /\ GetNodeCount(sf) = Len(log.nodes)
    /\ GetEdgeCount(sf) = Len(log.edges)
    /\ Value.Created = log.created

\* a call changes its own part only
OwnPartOnly ==
    /\ log'.op = "AddNode" => Besides(Value', "Nodes") = Besides(Value, "Nodes")
    /\ log'.op = "AddEdge" => Besides(Value', "Edges") = Besides(Value, "Edges")
    /\ log'.op = "UpdateTimestamp" => Besides(Value', "Updated") = Besides(Value, "Updated")

\* C26: after any sequence of AddNode, AddEdge and UpdateTimestamp calls on a
\* scene made by NewSceneFile, the node list is the AddNode arguments in call
\* order and the edge list the AddEdge arguments in call order, GetNodeCount and
\* GetEdgeCount are the numbers of those calls, and each call changes its own
\* part only: AddNode the nodes, AddEdge the edges, UpdateTimestamp
\* metadata.Updated, Created staying the instant of creation.
C26_InsertionOrder == []ListsAreArguments /\ [][OwnPartOnly]_vars

\* two nodes were added, b before a, and then the timestamp was updated, later
\* than the creation
C26_Witness ==
    /\ log.op = "UpdateTimestamp"
    /\ Value.Nodes = <<ServerNode("b", "n"), ServerNode("a", "m")>>
    /\ GetNodeCount(sf) = 2 /\ GetEdgeCount(sf) = 0
    /\ Value.Created = 1 /\ Value.Updated = 2

\* what a find must have given: the first of the arguments with the id, in the
\* scene's own array, and nil when no argument has the id
FirstOf(added, s, cells) ==
    IF \A i \in 1..Len(added) : added[i].ID # ptr.id
      THEN ptr.at = <<>>
      ELSE /\ ptr.at # <<>>
           /\ ptr.at[1].array = s.array
           /\ ptr.at[1].index \in 1..Len(added)
           /\ added[ptr.at[1].index].ID = ptr.id
           /\ \A j \in 1..(ptr.at[1].index - 1) : added[j].ID # ptr.id
           /\ cells[s.array][ptr.at[1].index] = added[ptr.at[1].index]

\* C27: AddNode and AddEdge never reject or deduplicate: a node whose id an
\* earlier node has, and an edge whose source or target names no node, are
\* appended unchanged; FindNode(id) and FindEdge(id) return the first element in
\* insertion order with that id, and nil when no element has it.
C27_AppendsAllFindsFirst ==
    /\ Elems(heap.nodes, sf.Scene.Nodes) = log.nodes
    /\ Elems(heap.edges, sf.Scene.Edges) = log.edges
    /\ log.op = "FindNode" => ptr.to = "node" /\ FirstOf(log.nodes, sf.Scene.Nodes, heap.nodes)
    /\ log.op = "FindEdge" => ptr.to = "edge" /\ FirstOf(log.edges, sf.Scene.Edges, heap.edges)

\* a second node with the id "a" was added, and FindNode("a") gave the first
C27_Witness ==
    /\ log.op = "FindNode" /\ ptr.id = "a"
    /\ Elems(heap.nodes, sf.Scene.Nodes) = <<ServerNode("a", "n"), ServerNode("a", "m")>>
    /\ ptr.at = << [array |-> sf.Scene.Nodes.array, index |-> 1] >>

\* C30: a write through the pointer FindNode(id) gave changes the scene's own
\* node, so that a later FindNode(id) sees what was written, whatever AddNode
\* calls were made between the find and the write.
C30_WriteObserved ==
    log.op = "WriteNode" =>
      LET q == Find(heap.nodes, sf.Scene.Nodes, ptr.id)
      IN q # <<>> /\ heap.nodes[q[1].array][q[1].index].Name = WrittenName

====
